---------------------------- MODULE Spec2Model ----------------------------
(***************************************************************************)
(* A model of the HIGs-PDF document assembly pipeline.                    *)
(*                                                                         *)
(*   Crawler   src/src/url_discovery.py   get_article_urls                 *)
(*   Renderer  src/src/pdf_generator.py   _generate_one_pdf,               *)
(*                                        _generate_pdfs_async             *)
(*   Pagination Resolver  src/src/pdf_generator.py  _generate_pdfs_async   *)
(*   Assembler            src/src/pdf_merger.py     merge_pdfs             *)
(*                                                                         *)
(* Each component has its own specification (SpecCrawl, SpecRender,        *)
(* SpecPaginate, SpecMerge) over the component's variables; the variables  *)
(* of the other components stay at their initial values.                   *)
(***************************************************************************)
EXTENDS Integers, Sequences, FiniteSets, TLC

VARIABLES
    \* ---- Crawler: get_article_urls (url_discovery.py:60-136)
    start_url,        \* parameter start_url, as passed in
    max_depth,        \* parameter max_depth
    max_pages,        \* parameter max_pages
    discovered_urls,  \* set discovered_urls
    urls_to_visit,    \* set urls_to_visit (the frontier)
    visited_urls,     \* set visited_urls
    depth_map,        \* dict depth_map
    found_on,         \* enqueued url -> the url of the page its link was on
    crawl_log,        \* the navigations made, in order: <<url, outcome>>
    hops,             \* ghost: per url, the length of the shortest chain of
                      \* links from the seed among the links read so far
    cpc,              \* "loop" | "returned"
    crawl_result,     \* the list returned: sorted(discovered_urls)
    \* ---- Renderer: _generate_pdfs_async (pdf_generator.py:247-363)
    workers,          \* parameter workers, as passed in
    content_of,       \* idx -> content hash of the page of article_list[idx]
    wpc,              \* idx -> position of task idx in _generate_one_pdf
    sem_held,         \* set of tasks holding a slot of `semaphore`
    page_open,        \* set of tasks whose page is open
    seen_lock,        \* holder of seen_lock, or NoTask
    seen_hashes,      \* set seen_hashes
    novel,            \* tasks that found their hash absent from seen_hashes
    skipped,          \* tasks that found their hash in seen_hashes
    ret,              \* idx -> the value task idx is about to return
    task_result,      \* idx -> Pending | NoneResult | Raised | a result dict
    overtaken,        \* tasks that finished after the section of a later
                      \* url had been produced
    rpc,              \* "gather" | "returned" | "raised"
    generated_articles, \* the sorted list of result dicts
    \* ---- Pagination Resolver: _generate_pdfs_async (pdf_generator.py:323-360)
    cover_pages,      \* cover_pages, as get_pdf_page_count read it
    page_numbers,     \* page_numbers: the second components of sections_info
    index_pages,      \* index_pages: the guess of the contents page count
    attempt,          \* iterations of `for _attempt in range(3)` entered
    renders,          \* the renders made, in order: [guess, measured]
    index_file,       \* the contents artifact _index.pdf: the render that
                      \* wrote it, or NoFile
    toc_links,        \* toc_links: a list of link dicts
    ppc,              \* "loop" | "returned" | "raised"
    \* ---- Assembler: merge_pdfs (pdf_merger.py:12-169)
    generated_list,   \* generated_list: the page count of every file, the
                      \* cover first, the contents page second
    on_disk,          \* file -> "present" | "missing" | "moved" | "deleted"
    merge_cover_pages, \* cover_pages of merge_pdfs
    merge_index_pages, \* index_pages of merge_pdfs
    merger,           \* the pages appended to `merger`: <<file, page>>
    outline,          \* the outline items given to merger.append
    writer_links,     \* the links added to `writer`
    link_errors,      \* positions in toc_links for which add_link raised
    merged_file,      \* the file at merged_path
    tmp_file,         \* the file at tmp_path
    faults,           \* the failures that have happened so far
    mpc,              \* position in merge_pdfs, or "returned", or
                      \* "failed_<at>": None was returned, from position <at>
    \* ---- Link rectangles: _extract_index_link_rects (pdf_generator.py:111-148)
    row_box,          \* getBoundingClientRect() of a row, window.scrollY added
    row_link          \* the link dict made of it, or NoLink

crawl_vars == <<start_url, max_depth, max_pages, discovered_urls, urls_to_visit,
                visited_urls, depth_map, found_on, crawl_log, hops, cpc,
                crawl_result>>
render_vars == <<workers, content_of, wpc, sem_held, page_open, seen_lock,
                 seen_hashes, novel, skipped, ret, task_result, overtaken,
                 rpc,
                 generated_articles>>
paginate_vars == <<cover_pages, page_numbers, index_pages, attempt, renders,
                   index_file, toc_links, ppc>>
merge_vars == <<generated_list, on_disk, merge_cover_pages, merge_index_pages,
                merger, outline, writer_links, link_errors, merged_file,
                tmp_file, faults, mpc>>
rect_vars == <<row_box, row_link>>
vars == <<crawl_vars, render_vars, paginate_vars, merge_vars, rect_vars>>

\* what the actions of one component leave alone
not_crawl == <<render_vars, paginate_vars, merge_vars, rect_vars>>
not_render == <<crawl_vars, paginate_vars, merge_vars, rect_vars>>
not_paginate == <<crawl_vars, render_vars, merge_vars, rect_vars>>
not_merge == <<crawl_vars, render_vars, rect_vars>>
not_rect == <<crawl_vars, render_vars, paginate_vars, merge_vars>>

-----------------------------------------------------------------------------
(* Bounds of the model *)

NumPages == 3        \* article pages of the site: /design/p1 .. /design/pN
MaxDepthBound == 2   \* max_depth ranges over 0..MaxDepthBound
MaxPagesBound == 3   \* max_pages ranges over 0..MaxPagesBound
NumUrls == 3         \* length of article_list
NumHashes == 2       \* distinct page contents
MaxWorkers == 2      \* workers ranges over 0..MaxWorkers
MaxContents == 4     \* the contents page has 1..MaxContents pages
MaxSubPage == 1      \* a contents row lies on sub-page 0..MaxSubPage
NumSections == 2     \* sections handed to merge_pdfs
MaxSecPages == 2     \* a section PDF has 1..MaxSecPages pages
MaxCoverPages == 1   \* the cover PDF has 1..MaxCoverPages pages
MaxFaults == 1       \* failures (unreadable, missing, raising) in one run
RowWindow == 3       \* a row starts within RowWindow px of a page boundary,
                     \* is 0..RowWindow px high, 1..RowWindow px wide

-----------------------------------------------------------------------------
(* URLs.  A URL is scheme://host/path with an optional trailing slash and  *)
(* an optional fragment.  Paths are numbered so that the number order is   *)
(* the lexicographic order of the path strings:                            *)
(*   0 "/design"   1..NumPages "/design/p<i>"                              *)
(*   NumPages+1 "/design/p<N+1>", a page only the larger site has          *)
(*   NumPages+2 "/design/search"   NumPages+3 "/news"                      *)
(* Scheme and host are the same everywhere (BASE_URL).                     *)

RootPage == 0
Articles == 1..NumPages
ExtraPage == NumPages + 1
SearchPage == NumPages + 2
NewsPage == NumPages + 3
Paths == RootPage..NewsPage

URLs == [page : Paths, slash : BOOLEAN, frag : BOOLEAN]

Url(p, s, f) == [page |-> p, slash |-> s, frag |-> f]

\* url_pattern in path, for url_pattern = "/design/" and path without its
\* trailing slashes: "/design" itself does not contain "/design/".
PatternInPath(p) == p \in Articles \cup {ExtraPage, SearchPage}

\* the href attribute, as written, contains url_pattern (a[href*="..."]):
\* "/design/" does, "/design" does not.
HrefHasPattern(h) == PatternInPath(h.page) \/ (h.page = RootPage /\ h.slash)

\* some excluded pattern occurs in the url ("/search", ..., "#", ".pdf")
HasExcludedPattern(u) == u.page = SearchPage \/ u.frag

\* parsed.path.rstrip("/") of a url, with scheme and host, without fragment
CleanUrl(h) == Url(h.page, FALSE, FALSE)

IsValidDesignUrl(u) == PatternInPath(u.page) /\ ~HasExcludedPattern(u)

DiscoverLinksOnPage(hrefs) ==
    LET links == {h \in hrefs : HrefHasPattern(h)}
    IN  {CleanUrl(h) : h \in {x \in links : IsValidDesignUrl(CleanUrl(x))}}


\* sorted(): the order of the url strings.  After a common path the empty
\* suffix comes first, then "#..." (0x23), then "/" (0x2F), then "/#...".
SuffixRank(u) == IF u.slash THEN (IF u.frag THEN 3 ELSE 2)
                 ELSE (IF u.frag THEN 1 ELSE 0)

UrlLess(a, b) == \/ a.page < b.page
                 \/ a.page = b.page /\ SuffixRank(a) < SuffixRank(b)

\* a bug: the list is in descending order
RECURSIVE SortedReverse(_)
SortedReverse(S) ==
    IF S = {} THEN <<>>
    ELSE LET m == CHOOSE x \in S : \A y \in S \ {x} : UrlLess(y, x)
         IN  <<m>> \o SortedReverse(S \ {m})

RECURSIVE Sorted(_)
Sorted(S) ==
    IF S = {} THEN <<>>
    ELSE LET m == CHOOSE x \in S : \A y \in S \ {x} : UrlLess(x, y)
         IN  <<m>> \o Sorted(S \ {m})

-----------------------------------------------------------------------------
(* Crawler: get_article_urls *)


\* the seeds: DEFAULT_START_URL "/design/", and an article page written
\* plainly, with a trailing slash or with a fragment
Seeds == {Url(RootPage, TRUE, FALSE), Url(1, FALSE, FALSE),
          Url(1, TRUE, FALSE), Url(1, FALSE, TRUE)}

\* the anchors a page may carry: links to "/design/", "/design/search" and
\* "/news#top", and links to any set of article pages, written plainly, with
\* a trailing slash or with a fragment
OtherHrefs == {Url(RootPage, TRUE, FALSE), Url(SearchPage, FALSE, FALSE),
               Url(NewsPage, FALSE, TRUE)}

HrefSetsOver(pages) ==
    {{Url(p, form[1], form[2]) : p \in T} \cup OtherHrefs :
        T \in SUBSET pages,
        form \in {<<FALSE, FALSE>>, <<TRUE, FALSE>>, <<FALSE, TRUE>>}}

HrefSets == HrefSetsOver(Articles)

CrawlInit ==
    /\ start_url \in Seeds
    /\ max_depth \in 0..MaxDepthBound
    /\ max_pages \in 0..MaxPagesBound
    /\ discovered_urls = {}
    /\ urls_to_visit = {start_url}
    /\ visited_urls = {}
    /\ depth_map = [u \in {start_url} |-> 0]
    /\ found_on = <<>>
    /\ crawl_log = <<>>
    /\ hops = [u \in {start_url} |-> 0]
    /\ cpc = "loop"
    /\ crawl_result = <<>>

\* a bug: the budget test lets one page too many in
LoopGuardOffByOne ==
    urls_to_visit # {} /\ Cardinality(discovered_urls) <= max_pages

\* while urls_to_visit and len(discovered_urls) < max_pages
LoopGuard == urls_to_visit # {} /\ Cardinality(discovered_urls) < max_pages

\* a bug: a link to a page already visited is put into the frontier again
NewToQueueAgain(new_links, visited, queue) ==
    {l \in new_links : l \notin queue}

\* for link in new_links: if link not in visited_urls and link not in
\* urls_to_visit: urls_to_visit.add(link); depth_map[link] = current_depth + 1
NewToQueue(new_links, visited, queue) ==
    {l \in new_links : l \notin visited /\ l \notin queue}

\* a bug: the url is recorded before the navigation is attempted
DiscoveredBeforeGoto(current_url, outcome) ==
    discovered_urls \cup {current_url}

\* page.goto(current_url, ...) comes first in the try block, and
\* discovered_urls.add(current_url) after it: an exception of goto skips the add
DiscoveredAfter(current_url, outcome) ==
    IF outcome = "goto_failed" THEN discovered_urls
    ELSE discovered_urls \cup {current_url}

\* a bug: pages at max_depth are expanded too
MayExpandAtMaxDepth(current_depth) == current_depth <= max_depth

\* if current_depth < max_depth
MayExpand(current_depth) == current_depth < max_depth

\* ghost: the links of current_url have been read; a link is one hop further
\* from the seed than current_url, unless a shorter chain to it is known
HopsAfter(current_url, new_links) ==
    [l \in DOMAIN hops \cup new_links |->
        IF /\ l \in new_links
           /\ l \in DOMAIN hops => hops[current_url] + 1 < hops[l]
        THEN hops[current_url] + 1
        ELSE hops[l]]

\* a bug: the url taken from the frontier stays in it
Peeked(current_url) == urls_to_visit

\* current_url = urls_to_visit.pop(): the frontier without the url taken
Popped(current_url) == urls_to_visit \ {current_url}

\* One iteration of the while loop: current_url is popped (set.pop() takes an
\* arbitrary element), and the visit ends in one of
\*   "ok"            goto and link discovery succeed
\*   "goto_failed"   page.goto raises
\*   "links_failed"  goto succeeds, _discover_links_on_page raises
Iterate(current_url, outcome, hrefs) ==
    LET queue == Popped(current_url)
        current_depth == IF current_url \in DOMAIN depth_map
                         THEN depth_map[current_url] ELSE 0
        visited == visited_urls \cup {current_url}
        new_links == DiscoverLinksOnPage(hrefs)
        added == NewToQueue(new_links, visited, queue)
    IN
    /\ cpc = "loop"
    /\ LoopGuard
    /\ current_url \in urls_to_visit
    /\ IF current_url \in visited_urls
       THEN /\ urls_to_visit' = queue
            /\ UNCHANGED <<visited_urls, discovered_urls, depth_map, found_on,
                           crawl_log, hops>>
       ELSE /\ visited_urls' = visited
            /\ crawl_log' = Append(crawl_log,
                                   [url |-> current_url,
                                    ok |-> outcome # "goto_failed"])
            /\ IF outcome = "goto_failed"
               THEN /\ urls_to_visit' = queue
                    /\ UNCHANGED <<depth_map, found_on, hops>>
               ELSE IF MayExpand(current_depth) /\ outcome = "ok"
                    THEN /\ urls_to_visit' = queue \cup added
                         /\ found_on' =
                              [l \in DOMAIN found_on \cup added |->
                                 IF l \in added THEN current_url
                                 ELSE found_on[l]]
                         /\ depth_map' =
                              [l \in DOMAIN depth_map \cup added |->
                                 IF l \in added THEN current_depth + 1
                                 ELSE depth_map[l]]
                         /\ hops' = HopsAfter(current_url, new_links)
                    ELSE /\ MayExpand(current_depth) \/ outcome = "ok"
                         /\ urls_to_visit' = queue
                         /\ UNCHANGED <<depth_map, found_on, hops>>
            /\ discovered_urls' = DiscoveredAfter(current_url, outcome)
    /\ UNCHANGED <<start_url, max_depth, max_pages, cpc, crawl_result>>
    /\ UNCHANGED not_crawl

\* the loop ends; return sorted(discovered_urls)
CrawlReturn ==
    /\ cpc = "loop"
    /\ ~LoopGuard
    /\ cpc' = "returned"
    /\ crawl_result' = Sorted(discovered_urls)
    /\ UNCHANGED <<start_url, max_depth, max_pages, discovered_urls,
                   urls_to_visit, visited_urls, depth_map, found_on, crawl_log,
                   hops>>
    /\ UNCHANGED not_crawl

\* the anchors of a page at max_depth are not read
VisitOk == \E u \in urls_to_visit :
              \E H \in IF MayExpand(depth_map[u]) THEN HrefSets ELSE {{}} :
                  Iterate(u, "ok", H)
VisitGotoFails == \E u \in urls_to_visit : Iterate(u, "goto_failed", {})
VisitLinksFail == \E u \in urls_to_visit : Iterate(u, "links_failed", {})

CrawlNext == VisitOk \/ VisitGotoFails \/ VisitLinksFail \/ CrawlReturn

\* The larger site: one article page more, crawled from "/design/" one level
\* deeper and with a budget for every page of it.
LargeInit ==
    /\ start_url = Url(RootPage, TRUE, FALSE)
    /\ max_depth = MaxDepthBound + 1
    /\ max_pages = NumPages + 2
    /\ discovered_urls = {}
    /\ urls_to_visit = {start_url}
    /\ visited_urls = {}
    /\ depth_map = [u \in {start_url} |-> 0]
    /\ found_on = <<>>
    /\ crawl_log = <<>>
    /\ hops = [u \in {start_url} |-> 0]
    /\ cpc = "loop"
    /\ crawl_result = <<>>

VisitOkLarge ==
    \E u \in urls_to_visit :
        \E H \in IF MayExpand(depth_map[u])
                 THEN HrefSetsOver(Articles \cup {ExtraPage}) ELSE {{}} :
            Iterate(u, "ok", H)

LargeNext == VisitOkLarge \/ VisitGotoFails \/ VisitLinksFail \/ CrawlReturn

-----------------------------------------------------------------------------
(* Renderer: _generate_pdfs_async and its tasks _generate_one_pdf *)

Tasks == 1..NumUrls          \* enumerate(article_list, 1)
Hashes == 1..NumHashes
NoTask == 0
Pending == [kind |-> "pending"]      \* the task has not finished
NoneResult == [kind |-> "None"]      \* the task returned None
Raised == [kind |-> "raised"]        \* the task ended with an exception
Cancelled == [kind |-> "cancelled"]  \* the task was torn down with the loop

\* workers = max(1, int(workers)); semaphore = asyncio.Semaphore(workers)
PoolSize == IF workers > 1 THEN workers ELSE 1

\* {"idx": idx, "url": url, "title": title, "path": filepath}; the url is
\* article_list[idx - 1], named here by its position
ResultDict(idx) == [kind |-> "dict", idx |-> idx, url |-> idx]

\* the contents of the pages: hashes are only compared for equality, so the
\* pages are numbered by content in the order of first occurrence
Contents ==
    {c \in [Tasks -> Hashes] :
        \A i \in Tasks : \A h \in 1..(c[i] - 1) : \E j \in 1..(i - 1) : c[j] = h}

RenderInit ==
    /\ workers \in 0..MaxWorkers
    /\ content_of \in Contents
    /\ wpc = [i \in Tasks |-> "acquire"]
    /\ sem_held = {}
    /\ page_open = {}
    /\ seen_lock = NoTask
    /\ seen_hashes = {}
    /\ novel = {}
    /\ skipped = {}
    /\ ret = [i \in Tasks |-> NoneResult]
    /\ task_result = [i \in Tasks |-> Pending]
    /\ overtaken = {}
    /\ rpc = "gather"
    /\ generated_articles = <<>>

Running(i, at) == rpc = "gather" /\ wpc[i] = at

\* a bug: tasks start without waiting for a slot
SemaphoreUnbounded == TRUE

\* async with semaphore: a slot is taken when one is free
SemaphoreFree == Cardinality(sem_held) < PoolSize

Acquire(i) ==
    /\ Running(i, "acquire")
    /\ SemaphoreFree
    /\ sem_held' = sem_held \cup {i}
    /\ wpc' = [wpc EXCEPT ![i] = "new_page"]
    /\ UNCHANGED <<workers, content_of, page_open, seen_lock, seen_hashes,
                   novel, skipped, ret, task_result, overtaken, rpc,
                   generated_articles>>
    /\ UNCHANGED not_render

\* the task leaves `async with semaphore` and ends with the value or the
\* exception given
Finish(i, outcome) ==
    /\ sem_held' = sem_held \ {i}
    /\ wpc' = [wpc EXCEPT ![i] = "done"]
    /\ task_result' = [task_result EXCEPT ![i] = outcome]
    /\ overtaken' = IF \E j \in Tasks : j > i /\ task_result[j].kind = "dict"
                    THEN overtaken \cup {i} ELSE overtaken

\* page = await context.new_page(): outside the try block, so an exception
\* leaves the coroutine
NewPage(i, ok) ==
    /\ Running(i, "new_page")
    /\ IF ok
       THEN /\ page_open' = page_open \cup {i}
            /\ wpc' = [wpc EXCEPT ![i] = "load"]
            /\ UNCHANGED <<sem_held, task_result, overtaken>>
       ELSE /\ Finish(i, Raised)
            /\ UNCHANGED page_open
    /\ UNCHANGED <<workers, content_of, seen_lock, seen_hashes, novel,
                   skipped, ret,
                   rpc, generated_articles>>
    /\ UNCHANGED not_render

\* await page.goto(url, ...), then
\* content_hash = await calculate_content_hash_async(page): neither touches
\* shared state; on an exception of either the handler `except Exception:
\* return None` runs, then the finally block
Load(i, outcome) ==
    /\ Running(i, "load")
    /\ outcome \in {"ok", "goto_failed", "hash_failed"}
    /\ wpc' = [wpc EXCEPT ![i] = IF outcome = "ok" THEN "check" ELSE "close"]
    /\ UNCHANGED <<workers, content_of, sem_held, page_open, seen_lock,
                   seen_hashes, novel, skipped, ret, task_result, overtaken,
                   rpc, generated_articles>>
    /\ UNCHANGED not_render

\* a bug: the seen set is read and written without mutual exclusion
LockIgnored == TRUE

\* async with seen_lock: entered when the lock is free
LockFree == seen_lock = NoTask

\* async with seen_lock: if content_hash in seen_hashes: return None
Check(i) ==
    /\ Running(i, "check")
    /\ LockFree
    /\ IF content_of[i] \in seen_hashes
       THEN /\ wpc' = [wpc EXCEPT ![i] = "close"]
            /\ skipped' = skipped \cup {i}
            /\ UNCHANGED <<seen_lock, novel>>
       ELSE /\ seen_lock' = i
            /\ novel' = novel \cup {i}
            /\ wpc' = [wpc EXCEPT ![i] = "insert"]
            /\ UNCHANGED skipped
    /\ UNCHANGED <<workers, content_of, sem_held, page_open, seen_hashes,
                   ret, task_result, overtaken, rpc, generated_articles>>
    /\ UNCHANGED not_render

\* seen_hashes.add(content_hash), and the lock is released
Insert(i) ==
    /\ Running(i, "insert")
    /\ seen_hashes' = seen_hashes \cup {content_of[i]}
    /\ seen_lock' = NoTask
    /\ wpc' = [wpc EXCEPT ![i] = "render"]
    /\ UNCHANGED <<workers, content_of, sem_held, page_open, novel, skipped,
                   ret,
                   task_result, overtaken, rpc, generated_articles>>
    /\ UNCHANGED not_render

\* the page break script (its exception is swallowed), _extract_title,
\* _build_article_path, page.pdf and the return of the result dict
Render(i, outcome) ==
    /\ Running(i, "render")
    /\ outcome \in {"ok", "title_failed", "pdf_failed"}
    /\ ret' = [ret EXCEPT ![i] = IF outcome = "ok" THEN ResultDict(i)
                                 ELSE NoneResult]
    /\ wpc' = [wpc EXCEPT ![i] = "close"]
    /\ UNCHANGED <<workers, content_of, sem_held, page_open, seen_lock,
                   seen_hashes, novel, skipped, task_result, overtaken, rpc,
                   generated_articles>>
    /\ UNCHANGED not_render

\* a bug: the page is closed at the end of the try block, which only the
\* successful path reaches, instead of in a finally block
CloseOnSuccessOnly(i, ok) ==
    /\ Running(i, "close")
    /\ page_open' = IF ret[i] = NoneResult THEN page_open ELSE page_open \ {i}
    /\ Finish(i, IF ok THEN ret[i] ELSE Raised)
    /\ UNCHANGED <<workers, content_of, seen_lock, seen_hashes, novel, skipped,
                   ret, rpc, generated_articles>>
    /\ UNCHANGED not_render

\* finally: await page.close().  When close() raises, the exception replaces
\* the return value; Playwright raises from close() when the page's target is
\* already gone, so the page is not open afterwards either way.
Close(i, ok) ==
    /\ Running(i, "close")
    /\ page_open' = page_open \ {i}
    /\ Finish(i, IF ok THEN ret[i] ELSE Raised)
    /\ UNCHANGED <<workers, content_of, seen_lock, seen_hashes, novel,
                   skipped, ret,
                   rpc, generated_articles>>
    /\ UNCHANGED not_render

\* results = await asyncio.gather(*tasks): the results in the order of tasks
GatherResults == [i \in Tasks |-> task_result[i]]

\* generated_articles = [r for r in results if r is not None]
NotNone(results) == SelectSeq(results, LAMBDA r : r # NoneResult)

\* a bug: the list is sorted in descending order of idx
RECURSIVE SortByIdxDescending(_)
SortByIdxDescending(rs) ==
    IF rs = <<>> THEN <<>>
    ELSE LET k == CHOOSE j \in 1..Len(rs) :
                     /\ \A l \in 1..Len(rs) : rs[j].idx >= rs[l].idx
                     /\ \A l \in 1..(j - 1) : rs[l].idx # rs[j].idx
             rest == [l \in 1..(Len(rs) - 1) |->
                        IF l < k THEN rs[l] ELSE rs[l + 1]]
         IN  <<rs[k]>> \o SortByIdxDescending(rest)

\* generated_articles.sort(key=lambda r: r["idx"])
RECURSIVE SortByIdx(_)
SortByIdx(rs) ==
    IF rs = <<>> THEN <<>>
    ELSE LET k == CHOOSE j \in 1..Len(rs) :
                     /\ \A l \in 1..Len(rs) : rs[j].idx <= rs[l].idx
                     /\ \A l \in 1..(j - 1) : rs[l].idx # rs[j].idx
             rest == [l \in 1..(Len(rs) - 1) |->
                        IF l < k THEN rs[l] ELSE rs[l + 1]]
         IN  <<rs[k]>> \o SortByIdx(rest)

GatherReturn ==
    /\ rpc = "gather"
    /\ \A i \in Tasks : task_result[i] \notin {Pending, Raised}
    /\ generated_articles' = SortByIdx(NotNone(GatherResults))
    /\ rpc' = "returned"
    /\ UNCHANGED <<workers, content_of, wpc, sem_held, page_open, seen_lock,
                   seen_hashes, novel, skipped, ret, task_result, overtaken>>
    /\ UNCHANGED not_render

\* gather() passes on the first exception of a task; the finally block of
\* _generate_pdfs_async closes the context (and with it every page), and
\* asyncio.run() cancels the tasks still running
GatherRaise ==
    /\ rpc = "gather"
    /\ \E i \in Tasks : task_result[i] = Raised
    /\ rpc' = "raised"
    /\ wpc' = [i \in Tasks |-> "done"]
    /\ task_result' = [i \in Tasks |-> IF task_result[i] = Pending
                                       THEN Cancelled ELSE task_result[i]]
    /\ page_open' = {}
    /\ sem_held' = {}
    /\ seen_lock' = NoTask
    /\ UNCHANGED <<workers, content_of, seen_hashes, novel, skipped, ret,
                   overtaken,
                   generated_articles>>
    /\ UNCHANGED not_render

RenderNext ==
    \/ \E i \in Tasks : Acquire(i)
    \/ \E i \in Tasks, ok \in BOOLEAN : NewPage(i, ok)
    \/ \E i \in Tasks, o \in {"ok", "goto_failed", "hash_failed"} : Load(i, o)
    \/ \E i \in Tasks : Check(i)
    \/ \E i \in Tasks : Insert(i)
    \/ \E i \in Tasks, o \in {"ok", "title_failed", "pdf_failed"} : Render(i, o)
    \/ \E i \in Tasks, ok \in BOOLEAN : Close(i, ok)
    \/ GatherReturn
    \/ GatherRaise

-----------------------------------------------------------------------------
(* Pagination Resolver: _generate_pdfs_async (pdf_generator.py:297-360).    *)
(* The section PDFs exist; their page counts are read, the starting page   *)
(* of every section is computed, and the contents page is rendered until   *)
(* the page count it was rendered with is the page count it has.           *)

\* the loop `for _attempt in range(3)`
Attempts == 3

\* a bug: a loop that ends without a match is an error
AfterLoopRaises == "raised"

\* the statement after the loop is the return, match or no match
AfterLoop == "returned"

\* get_pdf_page_count: the number of pages, and 0 when the file cannot be read
GetPdfPageCount(pages, readable) == IF readable THEN pages ELSE 0

\* the loop over article_paths: current_page starts each section and then
\* moves on by the page count read for it
RECURSIVE PageNumbersFrom(_, _)
PageNumbersFrom(current_page, counts) ==
    IF counts = <<>> THEN <<>>
    ELSE <<current_page>>
         \o PageNumbersFrom(current_page + Head(counts), Tail(counts))

\* page_numbers, with current_page = 1 + cover_pages at the start
PageNumbers(cover, counts) == PageNumbersFrom(1 + cover, counts)

\* display_sections_info: every page number moved on by the guess
DisplaySectionsInfo(numbers, guess) ==
    [i \in 1..Len(numbers) |-> numbers[i] + guess]

\* no rectangle (a link dict without "rect")
NoRect == 0

\* _extract_index_link_rects on render k: one link per row, data-idx counting
\* the rows from 1; the rectangle is a position in the layout of render k
ExtractIndexLinkRects(n, k, sub) ==
    [i \in 1..n |-> [idx |-> i, index_page |-> sub[i], rect |-> k]]

\* a bug: the rectangles of the first render are kept
ExtractOnce(old, n, k, sub) ==
    IF old = <<>> THEN ExtractIndexLinkRects(n, k, sub) ELSE old

\* toc_links after the capture of render k
CapturedLinks(old, n, k, sub) == ExtractIndexLinkRects(n, k, sub)

\* a bug: the guess is never replaced
KeepGuess(guess, measured) == guess

\* index_pages = new_index_pages
NextGuess(guess, measured) == measured

\* _index.pdf before the first render
NoFile == [render |-> 0, displayed |-> <<>>, pages |-> 0]

\* the scenario of the end-to-end test: a one-page cover, sections of 3, 5
\* and 2 pages
ScenarioCover == [pages |-> 1, readable |-> TRUE]
ScenarioCounts == <<3, 5, 2>>

SubPages == 0..MaxSubPage

PaginateInit ==
    /\ cover_pages = GetPdfPageCount(ScenarioCover.pages, ScenarioCover.readable)
    /\ page_numbers = PageNumbers(cover_pages, ScenarioCounts)
    /\ index_pages = 1
    /\ attempt = 0
    /\ renders = <<>>
    /\ index_file = NoFile
    /\ toc_links = <<>>
    /\ ppc = "loop"

\* one iteration of the loop: the contents page is laid out with the guess,
\* the link rectangles are captured, the PDF is written and its pages are
\* counted.  The loop ends on a match or with its last iteration, and the
\* function returns.
RenderContents(pages, readable, sub) ==
    LET k == attempt + 1
        new_index_pages == GetPdfPageCount(pages, readable)
    IN  /\ ppc = "loop"
        /\ attempt < Attempts
        /\ attempt' = k
        /\ toc_links' = CapturedLinks(toc_links, Len(page_numbers), k, sub)
        /\ index_file' =
               [render |-> k,
                displayed |-> DisplaySectionsInfo(page_numbers, index_pages),
                pages |-> pages]
        /\ renders' = Append(renders, [guess |-> index_pages,
                                       measured |-> new_index_pages])
        /\ IF new_index_pages = index_pages
           THEN /\ index_pages' = index_pages
                /\ ppc' = "returned"
           ELSE /\ index_pages' = NextGuess(index_pages, new_index_pages)
                /\ ppc' = IF k < Attempts THEN "loop" ELSE AfterLoop
        /\ UNCHANGED <<cover_pages, page_numbers>>
        /\ UNCHANGED not_paginate

\* a browser call of the iteration raises (new_page, set_content,
\* emulate_media, evaluate or pdf): the exception leaves the function
RenderContentsRaises ==
    /\ ppc = "loop"
    /\ attempt < Attempts
    /\ attempt' = attempt + 1
    /\ ppc' = "raised"
    /\ UNCHANGED <<cover_pages, page_numbers, index_pages, renders,
                   index_file, toc_links>>
    /\ UNCHANGED not_paginate

RenderContentsOk ==
    \E pages \in 1..MaxContents, readable \in BOOLEAN,
       sub \in [1..Len(page_numbers) -> SubPages] :
        RenderContents(pages, readable, sub)

PaginateNext == RenderContentsOk \/ RenderContentsRaises

-----------------------------------------------------------------------------
(* Assembler: merge_pdfs (pdf_merger.py:12-169), called as main.py calls   *)
(* it, with what the Pagination Resolver returned: generated_files,        *)
(* sections_info and toc_links.  A page of a PDF is <<file, page>>: the    *)
(* file it was rendered to and its number in that file.                    *)

CoverFile == 1
IndexFile == 2
SectionFile(i) == i + 2
Files == 1..(NumSections + 2)

\* the pages of generated_list[f]
PagesOf(list, f) == [j \in 1..list[f] |-> <<f, j>>]

\* a file: nothing there, a truncated write, or a whole document
NoDoc == [kind |-> "absent", pages |-> <<>>, outline |-> <<>>, links |-> {}]
PartialDoc == [kind |-> "partial", pages |-> <<>>, outline |-> <<>>,
               links |-> {}]
Doc(pages, items, links) ==
    [kind |-> "complete", pages |-> pages, outline |-> items, links |-> links]

\* the page counts a contents page of the model may have
ContentsCounts == 1..(MaxSubPage + 1)

\* a sub-page index beyond every page of the merged document
FarSubPage == MaxCoverPages + MaxSubPage + 1 + NumSections * MaxSecPages

\* link dicts that cannot be placed: data-idx 0, a data-idx beyond
\* sections_info, no rect, a source page beyond the document
BadLinks(k) ==
    << [idx |-> 0, index_page |-> 0, rect |-> k],
       [idx |-> NumSections + 1, index_page |-> 0, rect |-> k],
       [idx |-> 1, index_page |-> 0, rect |-> NoRect],
       [idx |-> 1, index_page |-> FarSubPage, rect |-> k] >>

\* the rows of a contents page that runs over all its sub-pages: row i lies
\* on sub-page i - 1, the rows after the last sub-page on the last
RowSubPages == [i \in 1..NumSections |->
                   IF i - 1 <= MaxSubPage THEN i - 1 ELSE MaxSubPage]

\* the lists of link dicts: none, the rows of the contents page as captured
\* on render k, and the same after dicts that cannot be placed
TocLists(k) ==
    { <<>>,
      ExtractIndexLinkRects(NumSections, k, RowSubPages),
      BadLinks(k) \o ExtractIndexLinkRects(NumSections, k, RowSubPages) }

\* the page counts of the generated files
GeneratedLists ==
    {[f \in Files |-> IF f = CoverFile THEN c
                      ELSE IF f = IndexFile THEN k
                      ELSE counts[f - 2]] :
        c \in 1..MaxCoverPages, k \in ContentsCounts,
        counts \in [1..NumSections -> 1..MaxSecPages]}

\* what the Pagination Resolver hands over: the cover and section page
\* counts as get_pdf_page_count read them, the contents page of the last
\* render, laid out with `guess`
Resolved(files, unreadable, guess, links) ==
    /\ cover_pages = GetPdfPageCount(files[CoverFile], CoverFile \notin unreadable)
    /\ page_numbers =
           PageNumbers(cover_pages,
                       [i \in 1..NumSections |->
                           GetPdfPageCount(files[SectionFile(i)],
                                           SectionFile(i) \notin unreadable)])
    /\ index_pages = guess
    /\ attempt = 0
    /\ renders = <<>>
    /\ index_file = [render |-> 1,
                     displayed |-> DisplaySectionsInfo(page_numbers, guess),
                     pages |-> files[IndexFile]]
    /\ toc_links = links
    /\ ppc = "returned"

MergeInit ==
    \E files \in GeneratedLists,
       unreadable \in SUBSET (Files \ {IndexFile}),
       converged \in BOOLEAN :
        /\ Cardinality(unreadable) <= MaxFaults
        /\ \E links \in TocLists(1) :
               Resolved(files, unreadable,
                        IF converged THEN files[IndexFile] ELSE 1, links)
        /\ generated_list = files
        /\ on_disk = [f \in Files |-> "present"]
        /\ merge_cover_pages = 0
        /\ merge_index_pages = 0
        /\ merger = <<>>
        /\ outline = <<>>
        /\ writer_links = {}
        /\ link_errors = {}
        /\ merged_file = NoDoc
        /\ tmp_file = NoDoc
        /\ faults = Cardinality(unreadable)
        /\ mpc = "append"

\* a bug: the outline item of a section is the page number on the
\* contents page as it was before the contents page was counted in
OutlineDestWithoutContents(idx, ip) == page_numbers[idx] - 1

\* dest_page of an outline item (line 62)
OutlineDest(idx, ip) == (page_numbers[idx] - 1) + ip

\* a bug: the link of a row goes to the displayed page number
LinkDestOneBased(idx, ip) == page_numbers[idx] + ip

\* dest_page of a link (line 101)
LinkDest(idx, ip) == (page_numbers[idx] - 1) + ip

\* src_page of a link (line 100)
LinkSrc(link, cp) == cp + link.index_page

AppendOutcomes == {"ok", "missing", "raises"}

\* the pages and outline items the loop over generated_list[2:] appends,
\* from section i on
\* a bug: the sections are appended last first
RECURSIVE SectionPagesReversed(_, _)
SectionPagesReversed(i, outcome) ==
    IF i > NumSections THEN <<>>
    ELSE SectionPagesReversed(i + 1, outcome)
         \o (IF outcome[SectionFile(i)] = "ok"
             THEN PagesOf(generated_list, SectionFile(i)) ELSE <<>>)

RECURSIVE SectionPages(_, _)
SectionPages(i, outcome) ==
    IF i > NumSections THEN <<>>
    ELSE (IF outcome[SectionFile(i)] = "ok"
          THEN PagesOf(generated_list, SectionFile(i)) ELSE <<>>)
         \o SectionPages(i + 1, outcome)

RECURSIVE SectionItems(_, _, _)
SectionItems(i, outcome, ip) ==
    IF i > NumSections THEN <<>>
    ELSE (IF outcome[SectionFile(i)] = "ok"
          THEN <<[idx |-> i, page_number |-> OutlineDest(i, ip)]>> ELSE <<>>)
         \o SectionItems(i + 1, outcome, ip)

\* lines 42-77: the cover, the contents page and the sections are appended.
\* A file may be missing (os.path.exists), and reading or appending it may
\* raise: for a section that skips the section, for the cover and the
\* contents page it ends merge_pdfs in its except clause.
MergeAppend(outcome) ==
    LET failed == {f \in Files : outcome[f] # "ok"}
        fatal == outcome[CoverFile] = "raises" \/ outcome[IndexFile] = "raises"
        cp == IF outcome[CoverFile] = "ok" THEN generated_list[CoverFile] ELSE 0
        ip == IF outcome[IndexFile] = "ok" THEN generated_list[IndexFile] ELSE 0
    IN  /\ mpc = "append"
        /\ faults + Cardinality(failed) <= MaxFaults
        /\ faults' = faults + Cardinality(failed)
        /\ on_disk' = [f \in Files |->
                          IF outcome[f] = "missing" THEN "missing" ELSE on_disk[f]]
        /\ IF fatal
           THEN /\ mpc' = "failed_append"
                /\ UNCHANGED <<merge_cover_pages, merge_index_pages, merger,
                               outline>>
           ELSE /\ mpc' = "write"
                /\ merge_cover_pages' = cp
                /\ merge_index_pages' = ip
                /\ merger' =
                       (IF outcome[CoverFile] = "ok"
                        THEN PagesOf(generated_list, CoverFile) ELSE <<>>)
                       \o (IF outcome[IndexFile] = "ok"
                           THEN PagesOf(generated_list, IndexFile) ELSE <<>>)
                       \o SectionPages(1, outcome)
                /\ outline' = SectionItems(1, outcome, ip)
        /\ UNCHANGED <<generated_list, writer_links, link_errors,
                       merged_file, tmp_file>>
        /\ UNCHANGED paginate_vars
        /\ UNCHANGED not_merge

AppendFiles == \E outcome \in [Files -> AppendOutcomes] : MergeAppend(outcome)

\* what a failed merger.write(merged_path) leaves at merged_path: nothing
\* when the file could not be opened, a truncated file otherwise
WriteLeaves(left) == IF left = "absent" THEN NoDoc ELSE PartialDoc

\* lines 80-85: merger.write(merged_path)
WriteMerged(ok, left) ==
    /\ mpc = "write"
    /\ IF ok
       THEN /\ merged_file' = Doc(merger, outline, {})
            /\ mpc' = IF toc_links # <<>> THEN "links" ELSE "cleanup"
            /\ faults' = faults
       ELSE /\ faults < MaxFaults
            /\ faults' = faults + 1
            /\ merged_file' = WriteLeaves(left)
            /\ mpc' = "failed_write"
    /\ UNCHANGED <<generated_list, on_disk, merge_cover_pages,
                   merge_index_pages, merger, outline, writer_links,
                   link_errors, tmp_file>>
    /\ UNCHANGED paginate_vars
    /\ UNCHANGED not_merge

Write ==
    \/ WriteMerged(TRUE, "absent")
    \/ \E left \in {"absent", "partial"} : WriteMerged(FALSE, left)

\* the link dict at position k of toc_links passes the tests of lines 95-106
\* on a writer of `total` pages
Placeable(k, total) ==
    LET link == toc_links[k]
    IN  /\ ~(link.idx <= 0 \/ link.rect = NoRect)
        /\ ~(link.idx > Len(page_numbers))
        /\ ~(LinkSrc(link, merge_cover_pages) < 0
             \/ LinkSrc(link, merge_cover_pages) >= total)
        /\ ~(LinkDest(link.idx, merge_index_pages) < 0
             \/ LinkDest(link.idx, merge_index_pages) >= total)

\* a bug: add_link raising ends the loop over toc_links
PlacedUntilRaise(raising, total) ==
    {k \in 1..Len(toc_links) :
        Placeable(k, total) /\ \A j \in raising : k < j}

\* the links the loop over toc_links adds when add_link raises for the
\* dicts at the positions `raising`
Placed(raising, total) ==
    {k \in 1..Len(toc_links) : Placeable(k, total) /\ k \notin raising}

\* lines 86-117: the merged file is read back into `writer` and the loop
\* over toc_links adds the links
AddLinks(raising) ==
    LET total == Len(merged_file.pages)
    IN  /\ mpc = "links"
        /\ \A k \in raising : Placeable(k, total)
        /\ faults + Cardinality(raising) <= MaxFaults
        /\ faults' = faults + Cardinality(raising)
        /\ writer_links' =
               {[link |-> k,
                 idx |-> toc_links[k].idx,
                 src |-> LinkSrc(toc_links[k], merge_cover_pages),
                 dest |-> LinkDest(toc_links[k].idx, merge_index_pages)] :
                    k \in Placed(raising, total)}
        /\ link_errors' = raising
        /\ mpc' = "write_tmp"
        /\ UNCHANGED <<generated_list, on_disk, merge_cover_pages,
                       merge_index_pages, merger, outline, merged_file,
                       tmp_file>>
        /\ UNCHANGED paginate_vars
        /\ UNCHANGED not_merge

Links == \E raising \in SUBSET (1..Len(toc_links)) : AddLinks(raising)

\* a bug: the annotated document is written over merged_path
ReplacedAfterTmpWrite(ok) == IF ok THEN merged_file ELSE PartialDoc

\* the file at merged_path while `writer` is written: writer.write(tmp)
\* goes to the temp file
MergedAfterTmpWrite(ok) == merged_file

\* lines 86-88 and 119-123: reading the merged file back, cloning it or
\* writing `writer` to the temp file.  Any of them raising ends merge_pdfs
\* in its except clause.
WriteTmp(ok, left) ==
    /\ mpc \in {"links", "write_tmp"}
    /\ ok => mpc = "write_tmp"
    /\ IF ok
       THEN /\ tmp_file' = Doc(merged_file.pages, merged_file.outline,
                               writer_links)
            /\ mpc' = "replace"
            /\ faults' = faults
       ELSE /\ faults < MaxFaults
            /\ faults' = faults + 1
            /\ tmp_file' = IF mpc = "links" THEN tmp_file ELSE WriteLeaves(left)
            /\ mpc' = IF mpc = "links" THEN "failed_links" ELSE "failed_tmp"
    /\ merged_file' = MergedAfterTmpWrite(ok)
    /\ UNCHANGED <<generated_list, on_disk, merge_cover_pages,
                   merge_index_pages, merger, outline, writer_links,
                   link_errors>>
    /\ UNCHANGED paginate_vars
    /\ UNCHANGED not_merge

Tmp ==
    \/ WriteTmp(TRUE, "absent")
    \/ \E left \in {"absent", "partial"} : WriteTmp(FALSE, left)

\* line 125: os.replace(tmp_path, merged_path), all or nothing
Replace(ok) ==
    /\ mpc = "replace"
    /\ IF ok
       THEN /\ merged_file' = tmp_file
            /\ tmp_file' = NoDoc
            /\ mpc' = "cleanup"
            /\ faults' = faults
       ELSE /\ faults < MaxFaults
            /\ faults' = faults + 1
            /\ UNCHANGED <<merged_file, tmp_file>>
            /\ mpc' = "failed_replace"
    /\ UNCHANGED <<generated_list, on_disk, merge_cover_pages,
                   merge_index_pages, merger, outline, writer_links,
                   link_errors>>
    /\ UNCHANGED paginate_vars
    /\ UNCHANGED not_merge

Rename == \E ok \in BOOLEAN : Replace(ok)

\* a bug: the individual PDFs are handled before the links are added
CleanupBeforeLinks == "links"

\* the individual PDFs are handled after the merged document is written
\* and, with toc_links, replaced by the annotated one
CleanupAt == "cleanup"

\* lines 128-169: the individual PDFs are moved to individual_pdfs, left
\* where they are, or deleted; a file that cannot be moved or deleted is
\* left and warned about; os.makedirs raising ends merge_pdfs in its except
\* clause.  Then merged_path is returned.
Cleanup(keep_separate, organize_files, makedirs_ok, failing) ==
    LET there == {f \in Files : on_disk[f] = "present"}
        to == IF keep_separate THEN "moved" ELSE "deleted"
        touched == ~keep_separate \/ organize_files
    IN  /\ mpc = CleanupAt
        /\ failing \subseteq there
        /\ ~touched => failing = {}
        /\ ~makedirs_ok => keep_separate /\ organize_files /\ failing = {}
        /\ faults + Cardinality(failing) + (IF makedirs_ok THEN 0 ELSE 1)
               <= MaxFaults
        /\ faults' = faults + Cardinality(failing)
                     + (IF makedirs_ok THEN 0 ELSE 1)
        /\ on_disk' = [f \in Files |->
                          IF touched /\ makedirs_ok /\ f \in there \ failing
                          THEN to ELSE on_disk[f]]
        /\ mpc' = IF makedirs_ok THEN "returned" ELSE "failed_cleanup"
        /\ UNCHANGED <<generated_list, merge_cover_pages, merge_index_pages,
                       merger, outline, writer_links, link_errors,
                       merged_file, tmp_file>>
        /\ UNCHANGED paginate_vars
        /\ UNCHANGED not_merge

Tidy ==
    \E keep_separate \in BOOLEAN, organize_files \in BOOLEAN,
       makedirs_ok \in BOOLEAN, failing \in SUBSET Files :
        Cleanup(keep_separate, organize_files, makedirs_ok, failing)

\* merge_pdfs has returned None
ReturnedNone ==
    mpc \in {"failed_append", "failed_write", "failed_links", "failed_tmp",
             "failed_replace", "failed_cleanup"}

MergeNext == AppendFiles \/ Write \/ Links \/ Tmp \/ Rename \/ Tidy

-----------------------------------------------------------------------------
(* Link rectangles: _extract_index_link_rects (pdf_generator.py:111-148),    *)
(* the function evaluated in the contents page for every row.  Lengths in  *)
(* CSS px are whole numbers; a length in PDF points is kept as its         *)
(* numerator over 96, so that x * PT_PER_PX = x * 72.0 / 96.0 is x * 72.   *)

A4_HEIGHT_PX == 1123
PtPerPxTimes96 == 72

\* no link dict yet
NoLink == [idx |-> 0, index_page |-> 0, rect |-> <<>>]

\* pageIndex = Math.floor(absTop / PAGE_H)
PageIndex(box, PAGE_H) == box.top \div PAGE_H

\* the body of rows.map: the link dict of the row with data-idx `idx`
RowLink(idx, box, PAGE_H) ==
    LET pageIndex == PageIndex(box, PAGE_H)
        topOnPage == box.top - pageIndex * PAGE_H
        bottomOnPage == box.bottom - pageIndex * PAGE_H
        x1 == box.left
        x2 == box.right
        y1 == PAGE_H - bottomOnPage
        y2 == PAGE_H - topOnPage
    IN  [idx |-> idx,
         index_page |-> pageIndex,
         rect |-> <<x1 * PtPerPxTimes96, y1 * PtPerPxTimes96,
                    x2 * PtPerPxTimes96, y2 * PtPerPxTimes96>>]

\* the boxes of the rows: the top edge up to RowWindow px after the start
\* or before the end of a sub-page
RowBoxes ==
    {[left |-> l, top |-> k * A4_HEIGHT_PX + off, right |-> l + w,
      bottom |-> k * A4_HEIGHT_PX + off + h] :
        l \in 0..1, w \in 1..RowWindow, h \in 0..RowWindow,
        k \in SubPages,
        off \in (0..RowWindow)
                \cup ((A4_HEIGHT_PX - 1 - RowWindow)..(A4_HEIGHT_PX - 1))}

RectInit ==
    /\ row_box \in RowBoxes
    /\ row_link = NoLink

ExtractRow(idx) ==
    /\ row_link = NoLink
    /\ row_link' = RowLink(idx, row_box, A4_HEIGHT_PX)
    /\ UNCHANGED row_box
    /\ UNCHANGED not_rect

RectNext == \E idx \in 1..NumSections : ExtractRow(idx)

-----------------------------------------------------------------------------
(* Specifications *)

CrawlIdle ==
    /\ start_url = Url(RootPage, TRUE, FALSE)
    /\ max_depth = 0
    /\ max_pages = 0
    /\ discovered_urls = {}
    /\ urls_to_visit = {}
    /\ visited_urls = {}
    /\ depth_map = <<>>
    /\ found_on = <<>>
    /\ crawl_log = <<>>
    /\ hops = <<>>
    /\ cpc = "idle"
    /\ crawl_result = <<>>

RenderIdle ==
    /\ workers = 0
    /\ content_of = <<>>
    /\ wpc = <<>>
    /\ sem_held = {}
    /\ page_open = {}
    /\ seen_lock = NoTask
    /\ seen_hashes = {}
    /\ novel = {}
    /\ skipped = {}
    /\ ret = <<>>
    /\ task_result = <<>>
    /\ overtaken = {}
    /\ rpc = "idle"
    /\ generated_articles = <<>>

PaginateIdle ==
    /\ cover_pages = 0
    /\ page_numbers = <<>>
    /\ index_pages = 0
    /\ attempt = 0
    /\ renders = <<>>
    /\ index_file = NoFile
    /\ toc_links = <<>>
    /\ ppc = "idle"

MergeIdle ==
    /\ generated_list = <<>>
    /\ on_disk = <<>>
    /\ merge_cover_pages = 0
    /\ merge_index_pages = 0
    /\ merger = <<>>
    /\ outline = <<>>
    /\ writer_links = {}
    /\ link_errors = {}
    /\ merged_file = NoDoc
    /\ tmp_file = NoDoc
    /\ faults = 0
    /\ mpc = "idle"

RectIdle ==
    /\ row_box = [left |-> 0, top |-> 0, right |-> 0, bottom |-> 0]
    /\ row_link = NoLink

InitCrawl == CrawlInit /\ RenderIdle /\ PaginateIdle /\ MergeIdle /\ RectIdle
SpecCrawl == InitCrawl /\ [][CrawlNext]_vars

\* get_article_urls is one sequential loop and every call in it returns or
\* raises (page.goto has a timeout): a step that can be taken is taken
SpecCrawlFair == InitCrawl /\ [][CrawlNext]_vars /\ WF_vars(CrawlNext)

InitLarge == LargeInit /\ RenderIdle /\ PaginateIdle /\ MergeIdle /\ RectIdle
SpecCrawlLarge == InitLarge /\ [][LargeNext]_vars

InitRender == CrawlIdle /\ RenderInit /\ PaginateIdle /\ MergeIdle /\ RectIdle
SpecRender == InitRender /\ [][RenderNext]_vars

InitPaginate ==
    CrawlIdle /\ RenderIdle /\ PaginateInit /\ MergeIdle /\ RectIdle
SpecPaginate == InitPaginate /\ [][PaginateNext]_vars

InitMerge == CrawlIdle /\ RenderIdle /\ MergeInit /\ RectIdle
SpecMerge == InitMerge /\ [][MergeNext]_vars

InitRect == CrawlIdle /\ RenderIdle /\ PaginateIdle /\ MergeIdle /\ RectInit
SpecRect == InitRect /\ [][RectNext]_vars

-----------------------------------------------------------------------------
(* Properties of the Crawler, under SpecCrawl *)

\* two urls differ at most by a fragment or a trailing slash
SamePage(a, b) == CleanUrl(a) = CleanUrl(b)

Range(f) == {f[x] : x \in DOMAIN f}

\* C1: the discovered set, and the list returned, never hold two urls that
\* differ only by a fragment or by a trailing slash (the seed as passed in
\* against a link that normalizes to the same page included).
C1_NoTwoUrlsOfOnePage ==
    /\ \A a, b \in discovered_urls : SamePage(a, b) => a = b
    /\ \A a, b \in Range(crawl_result) : SamePage(a, b) => a = b

\* C2: the number of discovered urls never exceeds max_pages, in the loop
\* and in the list returned.
C2_BudgetBound ==
    /\ Cardinality(discovered_urls) <= max_pages
    /\ Len(crawl_result) <= max_pages

\* C2 witness: the loop stopped on the budget with urls left in the frontier
\* and after a failed visit.
C2_Witness ==
    /\ cpc = "returned"
    /\ max_pages >= 2
    /\ Len(crawl_result) = max_pages
    /\ urls_to_visit # {}
    /\ \E k \in DOMAIN crawl_log : ~crawl_log[k].ok

\* the chain of links that led to url u, from u back to the seed: each url
\* followed by the url of the page its link was found on
RECURSIVE Chain(_)
Chain(u) == IF u \in DOMAIN found_on THEN <<u>> \o Chain(found_on[u])
            ELSE <<u>>

\* u is at most d links from the seed, each link found on a page that was
\* visited successfully
WithinHops(u, d) ==
    LET c == Chain(u)
    IN  /\ c[Len(c)] = start_url
        /\ Len(c) - 1 <= d
        /\ \A k \in 2..Len(c) : c[k] \in discovered_urls

\* C3: every discovered url is within max_depth links of the seed, through
\* pages visited successfully, and nothing is enqueued from a page whose
\* recorded depth is max_depth: no recorded depth exceeds max_depth.
C3_DepthBound ==
    /\ \A u \in discovered_urls : WithinHops(u, max_depth)
    /\ \A u \in Range(crawl_result) : WithinHops(u, max_depth)
    /\ \A u \in urls_to_visit \cup visited_urls :
          u \in DOMAIN depth_map /\ depth_map[u] <= max_depth

\* C3 witness: a url is returned that lies exactly max_depth >= 2 links
\* from the seed.
C3_Witness ==
    /\ cpc = "returned"
    /\ max_depth >= 2
    /\ \E u \in Range(crawl_result) :
          /\ depth_map[u] = max_depth
          /\ Len(Chain(u)) = max_depth + 1

FailedUrls == {crawl_log[k].url : k \in {j \in DOMAIN crawl_log :
                                            ~crawl_log[j].ok}}

\* the step is a visit whose navigation fails
GotoFailsStep == /\ Len(crawl_log') = Len(crawl_log) + 1
                 /\ ~crawl_log'[Len(crawl_log')].ok

-----------------------------------------------------------------------------
(* Properties of the Renderer, under SpecRender *)

\* the tasks whose result dict is in the list returned
Sections == {generated_articles[k].idx : k \in DOMAIN generated_articles}

\* the tasks whose page loaded and was fingerprinted
Fingerprinted == novel \cup skipped

\* C5: the list returned is strictly increasing in idx, the position of the
\* url in the input list, whatever the order in which the tasks finish.
C5_OrderByIdx ==
    rpc = "returned" =>
        \A j, k \in DOMAIN generated_articles :
            j < k => generated_articles[j].idx < generated_articles[k].idx

\* C5 witness: a section is returned whose task finished after the task of
\* a later section.
C5_Witness ==
    /\ rpc = "returned"
    /\ \E i \in overtaken : i \in Sections

\* C6: when two urls load and have the same fingerprint, exactly one section
\* with that fingerprint is returned.
C6_ExactlyOnePerFingerprint ==
    rpc = "returned" =>
        \A i, j \in Fingerprinted :
            (i # j /\ content_of[i] = content_of[j]) =>
                Cardinality({k \in Sections :
                               content_of[k] = content_of[i]}) = 1

\* C7: no two tasks both find the same fingerprint absent from the seen set,
\* and no two sections returned have the same fingerprint.
C7_CheckInsertAtomic ==
    /\ \A i, j \in novel : content_of[i] = content_of[j] => i = j
    /\ \A i, j \in Sections : content_of[i] = content_of[j] => i = j

\* C7 witness: of two urls with the same content, both fingerprinted, one
\* is returned as a section and the other was skipped.
C7_Witness ==
    /\ rpc = "returned"
    /\ \E i \in Sections, j \in skipped : content_of[i] = content_of[j]

\* the tasks in which some step failed
FailedTasks == {i \in Tasks : /\ wpc[i] = "done"
                              /\ i \notin skipped
                              /\ task_result[i].kind # "dict"}

\* C8: a failure in a step of one task yields no section for its url, does
\* not keep the sections of the other urls from being returned, and does not
\* stop the pipeline.
C8_FailureIsolated ==
    /\ rpc # "raised"
    /\ rpc = "returned" =>
          /\ Sections \cap FailedTasks = {}
          /\ \A i \in Tasks : ret[i].kind = "dict" => i \in Sections

\* the tasks between acquire and release of the semaphore
HoldingSlot == {i \in Tasks : wpc[i] \notin {"acquire", "done"}}

\* C9: at most PoolSize = max(1, workers) tasks hold a slot, and a task has
\* a page open only while it holds a slot.
C9_PoolBound ==
    /\ sem_held = HoldingSlot
    /\ Cardinality(sem_held) <= PoolSize
    /\ PoolSize >= 1
    /\ PoolSize >= workers
    /\ page_open \subseteq sem_held

\* C9 witness: the pool of two slots is full, with pages open, and a task
\* waits for a slot.
C9_Witness ==
    /\ workers = 2
    /\ Cardinality(sem_held) = 2
    /\ Cardinality(page_open) = 2
    /\ \E i \in Tasks : wpc[i] = "acquire"

\* C10: a task that has ended, by whatever path, has its page closed and
\* its slot released; when the list is returned no slot is held and no page
\* is open.
C10_ResourcesReleased ==
    /\ \A i \in Tasks : wpc[i] = "done" => i \notin page_open \cup sem_held
    /\ rpc = "returned" => page_open = {} /\ sem_held = {}

\* C10 witness: the list is returned after one task succeeded, one skipped
\* a duplicate and one failed inside the try block.
C10_Witness ==
    /\ rpc = "returned"
    /\ Sections # {}
    /\ skipped # {}
    /\ \E i \in Tasks \ (Sections \cup skipped) : task_result[i] = NoneResult

-----------------------------------------------------------------------------
(* Properties of the Pagination Resolver, under SpecPaginate *)

\* the last render found the page count it was laid out with
Converged ==
    /\ renders # <<>>
    /\ renders[Len(renders)].measured = renders[Len(renders)].guess

\* the renders made are those of a contents renderer whose measured length
\* is a non-decreasing function of the guess
NonDecreasing ==
    \A a, b \in 1..Len(renders) :
        renders[a].guess <= renders[b].guess
            => renders[a].measured <= renders[b].measured

\* no render made is longer than `most` pages
AtMost(most) == \A a \in 1..Len(renders) : renders[a].measured <= most

\* C11, as stated: from the guess 1 the loop ends on a render whose measured
\* page count is its guess, within 3 renders, whenever the measured length
\* is a non-decreasing, bounded function of the guess.
C11_ConvergesIfNonDecreasing ==
    (ppc = "returned" /\ NonDecreasing /\ AtMost(MaxContents))
        => Converged /\ Len(renders) <= Attempts

\* C11, amended: from the guess 1 the loop ends on a render whose measured
\* page count is its guess, within 3 renders, whenever the measured length
\* is a non-decreasing function of the guess that never exceeds 3 pages.
C11_ConvergesIfAtMostThree ==
    (ppc = "returned" /\ NonDecreasing /\ AtMost(Attempts))
        => Converged /\ Len(renders) <= Attempts

\* C11 witness: the third render is the first to match: 1 page guessed and 2
\* measured, 2 guessed and 3 measured, 3 guessed and 3 measured.
C11_Witness ==
    /\ ppc = "returned"
    /\ NonDecreasing
    /\ AtMost(Attempts)
    /\ Len(renders) = Attempts
    /\ Converged
    /\ renders[1].measured < renders[2].measured

\* some render made found the page count it was laid out with
SomeRenderMatched ==
    \E a \in 1..Len(renders) : renders[a].measured = renders[a].guess

\* C12: the contents page is rendered at least once and at most 3 times; when
\* no render matches its guess the function still returns, without an
\* error, and what it returns is the artifact and the link rectangles of
\* the third render.
C12_BestEffortAfterThree ==
    /\ Len(renders) <= Attempts
    /\ ppc = "returned" => Len(renders) >= 1
    /\ (Len(renders) = Attempts /\ ~SomeRenderMatched) =>
           /\ ppc = "returned"
           /\ index_file.render = Attempts
           /\ Len(toc_links) = Len(page_numbers)
           /\ \A i \in 1..Len(toc_links) : toc_links[i].rect = Attempts
    /\ (ppc = "returned" /\ ~SomeRenderMatched) => Len(renders) = Attempts
    /\ ppc = "raised" => Len(renders) < attempt

\* C12 witness: three renders were made, none matched, and the function has
\* returned.
C12_Witness ==
    /\ ppc = "returned"
    /\ Len(renders) = Attempts
    /\ ~SomeRenderMatched
    /\ index_file.render = Attempts

-----------------------------------------------------------------------------
(* Properties of the Assembler, under SpecMerge *)

\* the pages of the sections before section i
RECURSIVE PagesBefore(_)
PagesBefore(i) ==
    IF i <= 1 THEN 0
    ELSE PagesBefore(i - 1) + generated_list[SectionFile(i - 1)]

\* the page counts were read as they are
CountsRead ==
    /\ cover_pages = generated_list[CoverFile]
    /\ page_numbers =
           PageNumbers(generated_list[CoverFile],
                       [i \in 1..NumSections |-> generated_list[SectionFile(i)]])

\* the contents page was laid out with the page count it has
ContentsConverged == index_pages = generated_list[IndexFile]

\* the sections merge_pdfs has appended
AppendedSections == {i \in 1..NumSections : \E k \in 1..Len(merger) :
                                                merger[k][1] = SectionFile(i)}

\* C13: with section page counts c1..cn, cover page count C and a converged
\* contents page of K pages, the contents page displays C + K + (c1 + ... +
\* c(i-1)) + 1 for section i, and the outline item of section i targets the
\* page index one less.
C13_StartingPages ==
    LET C == generated_list[CoverFile]
        K == generated_list[IndexFile]
    IN  (mpc # "idle" /\ CountsRead /\ ContentsConverged) =>
            /\ \A i \in 1..NumSections :
                   index_file.displayed[i] = C + K + PagesBefore(i) + 1
            /\ merge_index_pages = K =>
                   \A k \in 1..Len(outline) :
                       outline[k].page_number
                           = index_file.displayed[outline[k].idx] - 1

\* C13 witness: a cover of 1 page, a converged contents page of 1 page,
\* sections of 2 and 1 pages: pages 3 and 5 are displayed, the outline items
\* target 2 and 4.
C13_Witness ==
    /\ mpc = "returned"
    /\ CountsRead
    /\ ContentsConverged
    /\ generated_list = <<1, 1, 2, 1>>
    /\ index_file.displayed = <<3, 5>>
    /\ outline = <<[idx |-> 1, page_number |-> 2],
                   [idx |-> 2, page_number |-> 4]>>

\* the index in `pages`, counted from 0, of the first page of `file`
FirstPageOf(pages, file) ==
    (CHOOSE k \in 1..Len(pages) : pages[k] = <<file, 1>>) - 1

\* C14: in every merged document the outline item of section i targets the
\* page index at which the first page of section i lies, whatever files are
\* present or missing, whatever appends succeed or fail, whatever page
\* counts could be read.
C14_OutlineTargetsFirstPage ==
    merged_file.kind = "complete" =>
        \A k \in 1..Len(merged_file.outline) :
            LET item == merged_file.outline[k]
            IN  item.page_number
                    = FirstPageOf(merged_file.pages, SectionFile(item.idx))

\* C15: a section that has an outline item and a link on the contents page
\* has one target: the destination page of the link is the page number of
\* the outline item.
C15_LinkGoesToOutlineTarget ==
    \A doc \in {merged_file, tmp_file} :
        doc.kind = "complete" =>
            \A l \in doc.links : \A k \in 1..Len(doc.outline) :
                doc.outline[k].idx = l.idx
                    => l.dest = doc.outline[k].page_number

\* C15 witness: the annotated document is in place and every section has an
\* outline item and a link.
C15_Witness ==
    /\ mpc = "returned"
    /\ merged_file.kind = "complete"
    /\ \A i \in 1..NumSections :
           /\ \E l \in merged_file.links : l.idx = i
           /\ \E k \in 1..Len(merged_file.outline) :
                  merged_file.outline[k].idx = i

\* the document merger.write wrote: all appended pages, the outline, no link
LinklessDocument == Doc(merger, outline, {})

\* C16: from the initial write of the merged document to the rename, and
\* after a failure anywhere between them, the file at merged_path is the
\* whole link-less document; a truncated file at merged_path is never one
\* of the annotated document, and an annotated document at merged_path is
\* whole.
C16_ReplaceIsAtomic ==
    /\ mpc \in {"links", "write_tmp", "replace",
                "failed_links", "failed_tmp", "failed_replace"}
           => merged_file = LinklessDocument
    /\ merged_file.kind = "partial" => mpc = "failed_write"
    /\ merged_file.links # {} =>
           /\ merged_file.kind = "complete"
           /\ merged_file = Doc(merger, outline, writer_links)
           /\ mpc \in {"cleanup", "returned", "failed_cleanup"}

\* C16 witness: links were added, writing the temp file stopped half way,
\* and merge_pdfs has returned.
C16_Witness ==
    /\ mpc = "failed_tmp"
    /\ writer_links # {}
    /\ tmp_file.kind = "partial"
    /\ merged_file = LinklessDocument

\* C17: when a write of the toolkit fails in merge_pdfs, the initial write of
\* the merged document or the write of the annotated one, no truncated file
\* is left at merged_path, and merge_pdfs returns None.
C17_NoPartialOutput ==
    mpc \in {"failed_write", "failed_tmp"} =>
        /\ ReturnedNone
        /\ merged_file.kind # "partial"

\* the link dict at position k of toc_links is one that can be placed: its
\* section exists, it has a rectangle, and its source and destination pages
\* are pages of the merged document
ValidLink(k) ==
    LET link == toc_links[k]
        pages == 0..(Len(merger) - 1)
    IN  /\ link.idx \in 1..Len(page_numbers)
        /\ link.rect # NoRect
        /\ merge_cover_pages + link.index_page \in pages
        /\ (page_numbers[link.idx] - 1) + merge_index_pages \in pages

\* C18: a link that cannot be placed (section index, source page or
\* destination page out of range, add_link raising) is left out and nothing
\* else: every other valid link is added, the failure does not end
\* merge_pdfs, and the document returned carries the links added.
C18_OnlyFailedLinkOmitted ==
    /\ (mpc \in {"write_tmp", "replace", "cleanup", "returned"}
            /\ toc_links # <<>>)
           => {l.link : l \in writer_links}
                  = {k \in 1..Len(toc_links) : ValidLink(k)} \ link_errors
    /\ ReturnedNone => faults > Cardinality(link_errors)
    /\ (mpc = "returned" /\ toc_links # <<>>)
           => merged_file = Doc(merger, outline, writer_links)

\* C18 witness: the list holds dicts out of range, add_link raised for one
\* valid link, another valid link was added, and merged_path is returned.
C18_Witness ==
    /\ mpc = "returned"
    /\ \E k \in 1..Len(toc_links) : ~ValidLink(k)
    /\ link_errors # {}
    /\ merged_file.links # {}

-----------------------------------------------------------------------------
(* More properties of the Crawler, under SpecCrawl *)

\* C19: the list returned is in strictly increasing order of the url strings
\* (sorted, no url twice) and holds the discovered urls, whatever the order
\* in which the frontier was worked off.
C19_ResultStrictlyIncreasing ==
    cpc = "returned" =>
        /\ \A j, k \in 1..Len(crawl_result) :
               j < k => UrlLess(crawl_result[j], crawl_result[k])
        /\ Range(crawl_result) = discovered_urls

\* C19 witness: the list returned has three urls, and two of them were
\* visited in the order opposite to that of the list.
C19_Witness ==
    /\ cpc = "returned"
    /\ Len(crawl_result) >= 3
    /\ \E j, k \in 1..Len(crawl_log) :
           /\ j < k
           /\ {crawl_log[j].url, crawl_log[k].url} \subseteq discovered_urls
           /\ UrlLess(crawl_log[k].url, crawl_log[j].url)

-----------------------------------------------------------------------------
(* More properties of the Assembler, under SpecMerge *)

\* C20: when the contents page was laid out with the page count it has, and
\* every section is appended, the number the contents page displays for a
\* section is the page number, counted from 1 with the cover and the
\* contents page, at which the section begins in the merged document.
C20_DisplayedIsStartingPage ==
    (/\ merged_file.kind = "complete"
     /\ ContentsConverged
     /\ AppendedSections = 1..NumSections)
        => \A i \in 1..NumSections :
               index_file.displayed[i]
                   = FirstPageOf(merged_file.pages, SectionFile(i)) + 1

\* C21: get_article_urls terminates, also when every visit fails, and when it
\* has terminated the frontier is empty or the number of discovered urls
\* has reached max_pages.
C21_Terminates ==
    /\ <>(cpc = "returned")
    /\ [](cpc = "returned" =>
            \/ urls_to_visit = {}
            \/ Cardinality(discovered_urls) = max_pages)

\* C21 witness: the function has returned after visits that all failed,
\* with an empty frontier and a budget that was not used.
C21_Witness ==
    /\ cpc = "returned"
    /\ crawl_log # <<>>
    /\ \A k \in 1..Len(crawl_log) : ~crawl_log[k].ok
    /\ urls_to_visit = {}
    /\ discovered_urls = {}
    /\ max_pages > 0

\* page a of a document comes before page b: a is of a file earlier in
\* generated_list (the cover, the contents page, the sections by sequence
\* index), or of the same file and an earlier page of it
PageBefore(a, b) == a[1] < b[1] \/ (a[1] = b[1] /\ a[2] < b[2])

\* C22: the pages of the merged document are all cover pages, then all
\* contents pages, then the pages of every appended section in increasing
\* sequence index, every file's pages in their own order and whole.
C22_PageOrder ==
    \A doc \in {merged_file, tmp_file} :
        doc.kind = "complete" =>
            /\ \A k \in 1..(Len(doc.pages) - 1) :
                   PageBefore(doc.pages[k], doc.pages[k + 1])
            /\ \A k \in 1..Len(doc.pages) :
                   LET f == doc.pages[k][1]
                       p == doc.pages[k][2]
                   IN  /\ p > 1 => doc.pages[k - 1] = <<f, p - 1>>
                       /\ p < generated_list[f]
                              => /\ k < Len(doc.pages)
                                 /\ doc.pages[k + 1] = <<f, p + 1>>

\* C22 witness: the merged document is returned with the cover, a contents
\* page of two pages and all sections, one of them of two pages.
C22_Witness ==
    /\ mpc = "returned"
    /\ merged_file.kind = "complete"
    /\ \A f \in Files : \E k \in 1..Len(merged_file.pages) :
                           merged_file.pages[k][1] = f
    /\ generated_list[IndexFile] = 2
    /\ \E i \in 1..NumSections : generated_list[SectionFile(i)] = 2

\* the individual PDFs that have been moved or deleted
Handled == {f \in Files : on_disk[f] \in {"moved", "deleted"}}

\* C23: an individual PDF is moved or deleted only when the final merged
\* document, with the links of toc_links when there are any, is in place at
\* merged_path; when merge_pdfs returns None no individual PDF has been
\* moved or deleted.
C23_HandledAfterFinalDocument ==
    /\ Handled # {} =>
           /\ mpc = "returned"
           /\ tmp_file = NoDoc
           /\ merged_file = Doc(merger, outline, writer_links)
           /\ toc_links # <<>> =>
                  {l.link : l \in merged_file.links}
                      = {k \in 1..Len(toc_links) : ValidLink(k)} \ link_errors
    /\ ReturnedNone => Handled = {}

\* C23 witness: the annotated document is in place and the individual PDFs
\* have been deleted.
C23_Witness ==
    /\ mpc = "returned"
    /\ merged_file.links # {}
    /\ \A f \in Files : on_disk[f] = "deleted"

-----------------------------------------------------------------------------
(* More properties of the Pagination Resolver, under SpecPaginate *)

\* C24: the link rectangles the function returns are those captured from the
\* render that wrote the returned _index.pdf, one for every row, never
\* those of an earlier iteration, whether the loop ended on a match or with
\* its third iteration.
C24_RectsOfFinalRender ==
    ppc = "returned" =>
        /\ index_file.render = Len(renders)
        /\ Len(toc_links) = Len(page_numbers)
        /\ \A i \in 1..Len(toc_links) :
               /\ toc_links[i].idx = i
               /\ toc_links[i].rect = index_file.render

\* C24 witness: the second render matched, after a first render that did
\* not, and the function has returned.
C24_Witness ==
    /\ ppc = "returned"
    /\ Len(renders) = 2
    /\ Converged
    /\ index_file.render = 2
    /\ toc_links # <<>>

-----------------------------------------------------------------------------
(* Properties of the link rectangles, under SpecRect *)

\* C25: the row with box (left, top, right, bottom) is put on sub-page
\* k = floor(top / H) with the rectangle [left*72/96, (H - (bottom - k*H))
\* *72/96, right*72/96, (H - (top - k*H))*72/96], and the rectangle lies on
\* that page: 0 <= y1 <= y2 <= H*72/96.
C25_RectOnItsPage ==
    row_link # NoLink =>
        LET H == A4_HEIGHT_PX
            k == row_link.index_page
            y1 == row_link.rect[2]
            y2 == row_link.rect[4]
        IN  /\ k * H <= row_box.top /\ row_box.top < (k + 1) * H
            /\ row_link.rect =
                   << row_box.left * 72, (H - (row_box.bottom - k * H)) * 72,
                      row_box.right * 72, (H - (row_box.top - k * H)) * 72 >>
            /\ 0 <= y1 /\ y1 <= y2 /\ y2 <= H * 72

\* C26: the depth recorded for a visited URL is its minimum number of link
\* hops from the seed, in whatever order the frontier is processed; hence a
\* crawl without failed visits that ends below its page budget returns every
\* URL within max_depth hops of the seed.
C26_DepthIsMinimumHops ==
    /\ \A u \in visited_urls : depth_map[u] = hops[u]
    /\ ( /\ cpc = "returned"
         /\ \A k \in DOMAIN crawl_log : crawl_log[k].ok
         /\ Cardinality(discovered_urls) < max_pages )
       => \A u \in DOMAIN hops :
              hops[u] <= max_depth => u \in Range(crawl_result)

-----------------------------------------------------------------------------
(* Further properties of the renderer, under SpecRender *)

\* C27: a fingerprint in the seen set belongs to a section of the output:
\* when the pipeline returns, every fingerprint in seen_hashes is the
\* fingerprint of a returned section, and every url skipped as a duplicate
\* has its content in a returned section.
C27_SeenHashHasSection ==
    rpc = "returned" =>
        /\ \A h \in seen_hashes : \E k \in Sections : content_of[k] = h
        /\ \A j \in skipped : \E k \in Sections : content_of[k] = content_of[j]

-----------------------------------------------------------------------------
(* Further properties of the merge, under SpecMerge *)

\* C28: every link added lies on a page of the contents: its source page
\* index is at least the page count of the cover and less than the page
\* counts of cover and contents together, and that page of the merged
\* document is a page of _index.pdf.
C28_LinkOnContentsPage ==
    \A l \in writer_links :
        /\ merge_cover_pages <= l.src
        /\ l.src < merge_cover_pages + merge_index_pages
        /\ merger[l.src + 1][1] = IndexFile

\* C29: a section PDF that has been deleted has its pages in the merged
\* document: its append did not fail.
C29_DeletedWasAppended ==
    \A i \in 1..NumSections :
        on_disk[SectionFile(i)] = "deleted" =>
            /\ i \in AppendedSections
            /\ \A j \in 1..generated_list[SectionFile(i)] :
                   \E k \in 1..Len(merged_file.pages) :
                       merged_file.pages[k] = <<SectionFile(i), j>>

-----------------------------------------------------------------------------
(* Further properties of the Crawler, under SpecCrawl *)

\* C30: a url is navigated to at most once, whether the visit succeeds or
\* fails: no url occurs twice among the navigations, and a visited url is
\* not in the frontier.
C30_NavigatedOnce ==
    /\ \A j, k \in DOMAIN crawl_log :
           crawl_log[j].url = crawl_log[k].url => j = k
    /\ visited_urls \cap urls_to_visit = {}
    /\ {crawl_log[k].url : k \in DOMAIN crawl_log} = visited_urls

\* C30 witness: a visit failed, two more pages were visited after it, and
\* the crawl has returned with an empty frontier.
C30_Witness ==
    /\ cpc = "returned"
    /\ urls_to_visit = {}
    /\ \E j \in DOMAIN crawl_log :
          /\ ~crawl_log[j].ok
          /\ j + 2 <= Len(crawl_log)
          /\ crawl_log[j + 1].ok

=============================================================================
